---- MODULE Spec2Model ----
(***************************************************************************)
(* The TS2589 import rewriter: fix-ts2589.mjs (version two) and its        *)
(* earlier copy (version one, src/unnamed/part_000).                       *)
(*                                                                         *)
(* A file's text is a sequence of lines and a line is a sequence of        *)
(* tokens (strings).  Tokens of one line are separated by one blank where  *)
(* the regular expressions ask for white space, and every import           *)
(* statement of the inputs stands on one line, closes its brace list and   *)
(* names its module, so no match of a regular expression spans two         *)
(* non-blank lines.  The regular expressions are translated to predicates  *)
(* on the tokens of a line.                                                *)
(***************************************************************************)
EXTENDS Naturals, Sequences, FiniteSets

(* ----------------------------- bounds --------------------------------- *)

MaxLines == 2

MaxFiles == 2

(* ----------------------------- tokens --------------------------------- *)

Idents == {"internal", "api", "internalFoo"}

ApiSpecifiers == {"'../_generated/api'", "'./_generated/api.js'"}

MarkerToken == "// Bypass TS2589 by using require() which doesn't trigger type inference"

EslintToken == "// eslint-disable-next-line @typescript-eslint/no-explicit-any, @typescript-eslint/no-require-imports"

CommentToken == "// note"

CodeLine == <<"export", "const", "x", "=", "1", ";">>

BlankLine == << >>

(* the guard searches for the marker in another spelling and never finds it *)
HasMarkerOtherSpelling(content) ==
  \E l \in 1..Len(content) : \E t \in 1..Len(content[l]) :
    content[l][t] = "// bypass ts2589"

(* 'Bypass TS2589' occurs in the token *)
ContainsMarker(tok) == tok = MarkerToken

HasMarker(content) ==
  \E l \in 1..Len(content) : \E t \in 1..Len(content[l]) : ContainsMarker(content[l][t])

(* /['"]\.\.?\/?.*\/_generated\/api(\.js)?['"]/ on one quoted specifier *)
IsApiSpecifier(tok) == tok \in ApiSpecifiers

(* the identifier occurs in the token as a substring: /internal/, /api/ *)
HasSubstring(tok, name) ==
  \/ tok = name
  \/ name = "internal" /\ tok = "internalFoo"

(* the identifier occurs in the token between word boundaries: /\bNAME\b/ *)
IsWord(tok, name) == tok = name

(* ----------------------------- detection ------------------------------ *)

(* the detection pattern without \/_generated\/api: any module will do *)
DetectLineAnyModule(name, line) ==
  /\ Len(line) >= 1
  /\ line[1] = "import"
  /\ \E i \in 2..Len(line) :
       /\ line[i] = "{"
       /\ i + 2 <= Len(line)
       /\ line[i+1] = name
       /\ line[i+2] \in {",", "}"}
       /\ \E k \in (i+3)..(Len(line)-1) : line[k] = "from"

(* /^import\s+.*\{\s*NAME\s*[,}].*from\s+['"]...\/_generated\/api(\.js)?['"]/ on one line *)
DetectLine(name, line) ==
  /\ Len(line) >= 1
  /\ line[1] = "import"
  /\ \E i \in 2..Len(line) :
       /\ line[i] = "{"
       /\ i + 2 <= Len(line)
       /\ line[i+1] = name
       /\ line[i+2] \in {",", "}"}
       /\ \E k \in (i+3)..(Len(line)-1) :
            line[k] = "from" /\ IsApiSpecifier(line[k+1])

hasInternalImport(content) ==
  \E l \in 1..Len(content) : DetectLine("internal", content[l])

hasApiImport(content) ==
  \E l \in 1..Len(content) : DetectLine("api", content[l])

(* ----------------------------- replacement patterns ------------------- *)

(* the first "}" after position p, 0 when the line has none: [^}]*\} *)
FirstClose(line, p) ==
  IF \E c \in (p+1)..Len(line) : line[c] = "}"
  THEN CHOOSE c \in (p+1)..Len(line) :
         line[c] = "}" /\ \A j \in (p+1)..(c-1) : line[j] # "}"
  ELSE 0

(* \}\s+from\s+['"]...\/_generated\/api(\.js)?['"] with "}" at position c *)
FromApiAt(line, c) ==
  /\ c + 2 <= Len(line)
  /\ line[c+1] = "from"
  /\ IsApiSpecifier(line[c+2])

(* ^import\s+(?:type\s+)?\{ : the position of "{", 0 when the line does not start so *)
BraceStart(line) ==
  IF Len(line) >= 2 /\ line[1] = "import" /\ line[2] = "{" THEN 2
  ELSE IF Len(line) >= 3 /\ line[1] = "import" /\ line[2] = "type" /\ line[3] = "{" THEN 3
  ELSE 0

(* ^import\s+\{ : version one has no (?:type\s+)? *)
BraceStartV1(line) ==
  IF Len(line) >= 2 /\ line[1] = "import" /\ line[2] = "{" THEN 2 ELSE 0

(* ;?\s*$ after the specifier at position s: nothing, or one semicolon *)
TailV1(line, s) ==
  \/ Len(line) = s
  \/ Len(line) = s + 1 /\ line[s+1] = ";"

(* version two: ^import\s+(?:type\s+)?\{[^}]*\bNAME\b[^}]*\}\s+from\s+...;?.*$ *)
NameImportRegex(name, line) ==
  LET p == BraceStart(line)
      c == FirstClose(line, p)
  IN /\ p # 0
     /\ c # 0
     /\ \E j \in (p+1)..(c-1) : IsWord(line[j], name)
     /\ FromApiAt(line, c)

internalImportRegex(line) == NameImportRegex("internal", line)

apiImportRegex(line) == NameImportRegex("api", line)

(* version two: ...\{(?=[^}]*\binternal\b)(?=[^}]*\bapi\b)[^}]*\}\s+from\s+...;?.*$ *)
sameLineCombinedRegex(line) ==
  LET p == BraceStart(line)
      c == FirstClose(line, p)
  IN /\ p # 0
     /\ c # 0
     /\ \E j \in (p+1)..(c-1) : IsWord(line[j], "internal")
     /\ \E j \in (p+1)..(c-1) : IsWord(line[j], "api")
     /\ FromApiAt(line, c)

(* version one: ^import\s+\{[^}]*NAME[^}]*\}\s+from\s+...;?\s*$ *)
NameImportRegexV1(names, line) ==
  LET p == BraceStartV1(line)
      c == FirstClose(line, p)
  IN /\ p # 0
     /\ c # 0
     /\ \E j \in (p+1)..(c-1) : \E n \in names : HasSubstring(line[j], n)
     /\ FromApiAt(line, c)
     /\ TailV1(line, c + 2)

combinedImportRegexV1(line) == NameImportRegexV1({"internal", "api"}, line)

internalImportRegexV1(line) == NameImportRegexV1({"internal"}, line)

apiImportRegexV1(line) == NameImportRegexV1({"api"}, line)

Matches(pattern, line) ==
  CASE pattern = "sameLine"   -> sameLineCombinedRegex(line)
    [] pattern = "internal"   -> internalImportRegex(line)
    [] pattern = "api"        -> apiImportRegex(line)
    [] pattern = "combinedV1" -> combinedImportRegexV1(line)
    [] pattern = "internalV1" -> internalImportRegexV1(line)
    [] pattern = "apiV1"      -> apiImportRegexV1(line)

(* regex.test(content) with the m flag: some line matches *)
Test(pattern, content) ==
  \E l \in 1..Len(content) : Matches(pattern, content[l])

(* The \s*$ that ends a version one pattern also takes the line ends of the
   blank lines that follow the matched line; .*$ of version two takes none. *)
RECURSIVE BlankRun(_, _)
BlankRun(content, i) ==
  IF i <= Len(content) /\ content[i] = BlankLine
  THEN 1 + BlankRun(content, i + 1)
  ELSE 0

Absorbed(pattern, content, i) ==
  IF pattern \in {"combinedV1", "internalV1", "apiV1"}
  THEN BlankRun(content, i + 1)
  ELSE 0

(* content.replace(regex, block) with the g and m flags, from line i on *)
RECURSIVE ReplaceFrom(_, _, _, _)
ReplaceFrom(pattern, content, block, i) ==
  IF i > Len(content) THEN << >>
  ELSE IF Matches(pattern, content[i])
       THEN block \o ReplaceFrom(pattern, content, block,
                                 i + 1 + Absorbed(pattern, content, i))
       ELSE <<content[i]>> \o ReplaceFrom(pattern, content, block, i + 1)

Replace(pattern, content, block) == ReplaceFrom(pattern, content, block, 1)

(* ----------------------------- generated text ------------------------- *)

DeclLine(name, importPath) ==
  <<"const", name, "=", "require('" \o importPath \o "')." \o name, "as", "any;">>

NameBlock(name, importPath) ==
  << <<MarkerToken>>, <<EslintToken>>, DeclLine(name, importPath) >>

CombinedBlock(importPath) ==
  << <<MarkerToken>>,
     <<EslintToken>>, DeclLine("internal", importPath),
     <<EslintToken>>, DeclLine("api", importPath) >>

(* relative(dirname(filePath), join(convexDir, '_generated/api.js')) for a
   file depth directories below convexDir, with forward slashes *)
RECURSIVE relPath(_)
relPath(depth) ==
  IF depth = 0 THEN "_generated/api.js" ELSE "../" \o relPath(depth - 1)

(* relPath.startsWith('.') ? relPath : `./${relPath}` *)
importPathOf(depth) ==
  IF depth > 0 THEN relPath(depth) ELSE "./" \o relPath(depth)

(* ----------------------------- the rewrite ---------------------------- *)

(* the separate-line branch runs the api replacement on the content read,
   dropping what the internal replacement produced *)
RewriteV2ApiOnContent(content, importPath) ==
  IF Test("sameLine", content)
  THEN [branch |-> "sameLine",
        newContent |-> Replace("sameLine", content, CombinedBlock(importPath)),
        modified |-> TRUE]
  ELSE IF hasInternalImport(content) /\ hasApiImport(content)
  THEN LET afterInternal == Replace("internal", content, NameBlock("internal", importPath))
           afterApi == Replace("api", content, NameBlock("api", importPath))
       IN [branch |-> "separate",
           newContent |-> afterApi,
           modified |-> content # afterInternal \/ content # afterApi]
  ELSE IF hasInternalImport(content)
  THEN LET after == Replace("internal", content, NameBlock("internal", importPath))
       IN [branch |-> "internal", newContent |-> after, modified |-> content # after]
  ELSE LET after == Replace("api", content, NameBlock("api", importPath))
       IN [branch |-> "api", newContent |-> after, modified |-> content # after]

(* modified is set without comparing the text, as the first version does
   without its test() *)
RewriteV2ModifiedUnchecked(content, importPath) ==
  IF Test("sameLine", content)
  THEN [branch |-> "sameLine",
        newContent |-> Replace("sameLine", content, CombinedBlock(importPath)),
        modified |-> TRUE]
  ELSE IF hasInternalImport(content) /\ hasApiImport(content)
  THEN [branch |-> "separate",
        newContent |-> Replace("api",
                         Replace("internal", content, NameBlock("internal", importPath)),
                         NameBlock("api", importPath)),
        modified |-> TRUE]
  ELSE IF hasInternalImport(content)
  THEN [branch |-> "internal",
        newContent |-> Replace("internal", content, NameBlock("internal", importPath)),
        modified |-> TRUE]
  ELSE [branch |-> "api",
        newContent |-> Replace("api", content, NameBlock("api", importPath)),
        modified |-> TRUE]

(* fix-ts2589.mjs, the loop body after the two skips: branch, newContent, modified *)
RewriteV2(content, importPath) ==
  IF Test("sameLine", content)
  THEN [branch |-> "sameLine",
        newContent |-> Replace("sameLine", content, CombinedBlock(importPath)),
        modified |-> TRUE]
  ELSE IF hasInternalImport(content) /\ hasApiImport(content)
  THEN LET beforeInternal == content
           afterInternal == Replace("internal", beforeInternal, NameBlock("internal", importPath))
           internalReplaced == beforeInternal # afterInternal
           beforeApi == afterInternal
           afterApi == Replace("api", beforeApi, NameBlock("api", importPath))
           apiReplaced == beforeApi # afterApi
       IN [branch |-> "separate",
           newContent |-> afterApi,
           modified |-> internalReplaced \/ apiReplaced]
  ELSE IF hasInternalImport(content)
  THEN IF Test("internal", content)
       THEN LET after == Replace("internal", content, NameBlock("internal", importPath))
            IN [branch |-> "internal", newContent |-> after, modified |-> content # after]
       ELSE [branch |-> "internal", newContent |-> content, modified |-> FALSE]
  ELSE IF Test("api", content)
       THEN LET after == Replace("api", content, NameBlock("api", importPath))
            IN [branch |-> "api", newContent |-> after, modified |-> content # after]
       ELSE [branch |-> "api", newContent |-> content, modified |-> FALSE]

(* version one, the loop body after the two skips *)
RewriteV1(content, importPath) ==
  IF hasInternalImport(content) /\ hasApiImport(content)
  THEN IF Test("combinedV1", content)
       THEN [branch |-> "combined",
             newContent |-> Replace("combinedV1", content, CombinedBlock(importPath)),
             modified |-> TRUE]
       ELSE [branch |-> "combined", newContent |-> content, modified |-> FALSE]
  ELSE IF hasInternalImport(content)
  THEN IF Test("internalV1", content)
       THEN [branch |-> "internal",
             newContent |-> Replace("internalV1", content, NameBlock("internal", importPath)),
             modified |-> TRUE]
       ELSE [branch |-> "internal", newContent |-> content, modified |-> FALSE]
  ELSE IF Test("apiV1", content)
       THEN [branch |-> "api",
             newContent |-> Replace("apiV1", content, NameBlock("api", importPath)),
             modified |-> TRUE]
       ELSE [branch |-> "api", newContent |-> content, modified |-> FALSE]

Rewrite(v, content, importPath) ==
  IF v = 2 THEN RewriteV2(content, importPath) ELSE RewriteV1(content, importPath)

(* ----------------------------- inputs --------------------------------- *)

(* a brace list: a, b, c *)
RECURSIVE Listing(_)
Listing(ns) ==
  IF Len(ns) = 1 THEN <<ns[1]>>
  ELSE <<ns[1], ",">> \o Listing(Tail(ns))

(* every order of every non-empty choice of different identifiers *)
NameLists ==
  { ns \in UNION { [1..n -> Idents] : n \in 1..Cardinality(Idents) } :
      \A i, j \in 1..Len(ns) : i # j => ns[i] # ns[j] }

(* import { .. } from '../_generated/api'; *)
PlainImport(ns) ==
  <<"import", "{">> \o Listing(ns) \o <<"}", "from", "'../_generated/api'", ";">>

(* import type { .. } from './_generated/api.js' // note *)
TypeImport(ns) ==
  <<"import", "type", "{">> \o Listing(ns)
    \o <<"}", "from", "'./_generated/api.js'", CommentToken>>

(* import dflt, { .. } from '../_generated/api'; *)
DefaultImport(ns) ==
  <<"import", "dflt", ",", "{">> \o Listing(ns)
    \o <<"}", "from", "'../_generated/api'", ";">>

(* import { internal } from './other'; *)
OtherImport == <<"import", "{", "internal", "}", "from", "'./other'", ";">>

ImportLines ==
  { PlainImport(ns) : ns \in NameLists }
    \cup { TypeImport(ns) : ns \in NameLists }
    \cup { DefaultImport(ns) : ns \in NameLists }

Lines == ImportLines \cup { OtherImport, CodeLine, BlankLine, <<MarkerToken>> }

Texts == UNION { [1..n -> Lines] : n \in 0..MaxLines }

(* ----------------------------- state ---------------------------------- *)

VARIABLES
  version,       \* 2: fix-ts2589.mjs, 1: its earlier copy
  files,         \* findTsFiles(convexDir): the depth of each file found
  disk,          \* the text of each file found
  idx,           \* position of the for loop in files
  fixedCount,
  skippedCount,
  pc,            \* "loop" | "done"
  firstRun,      \* the script has not been started again yet
  original,      \* disk when the script was first started
  atStart,       \* disk when the current run started
  written,       \* positions whose file this run wrote
  last           \* what the latest loop iteration read, decided and did

vars == <<version, files, disk, idx, fixedCount, skippedCount, pc, firstRun,
          original, atStart, written, last>>

NoIteration ==
  [file |-> 0, branch |-> "none", content |-> << >>, newContent |-> << >>,
   hasInternal |-> FALSE, hasApi |-> FALSE, modified |-> FALSE, wrote |-> FALSE,
   fixedBefore |-> 0, skippedBefore |-> 0]

InitWith(v, fs, d) ==
  /\ version = v
  /\ files = fs
  /\ disk = d
  /\ idx = 1
  /\ fixedCount = 0
  /\ skippedCount = 0
  /\ pc = "loop"
  /\ firstRun = TRUE
  /\ original = d
  /\ atStart = d
  /\ written = {}
  /\ last = NoIteration

(* a file directly in convexDir, whose relPath needs the './' prefix, or one
   directory below, whose relPath starts with '..' *)
Depths == {0, 1}

(* fix-ts2589.mjs on one file, any text *)
Init ==
  \E depth \in Depths, t \in Texts : InitWith(2, <<depth>>, <<t>>)

(* the earlier copy of the script on the same inputs *)
InitV1 ==
  \E depth \in Depths, t \in Texts : InitWith(1, <<depth>>, <<t>>)

(* texts of a tree of several files: one import or two, patched already, or no import *)
BatchTexts ==
  { <<PlainImport(<<"internal">>)>>,
    <<PlainImport(<<"api">>)>>,
    <<PlainImport(<<"api", "internal">>)>>,
    <<PlainImport(<<"internal">>), TypeImport(<<"api">>)>>,
    <<DefaultImport(<<"internal">>)>>,
    <<CodeLine, <<MarkerToken>>>>,
    <<CodeLine>> }

(* either script on a tree of 1..MaxFiles files *)
InitBatch ==
  \E v \in {1, 2}, n \in 1..MaxFiles :
    \E fs \in [1..n -> Depths], d \in [1..n -> BatchTexts] : InitWith(v, fs, d)

content == disk[idx]

Iteration(branch, r, wrote) ==
  [file |-> idx, branch |-> branch, content |-> content,
   newContent |-> r.newContent,
   hasInternal |-> hasInternalImport(content), hasApi |-> hasApiImport(content),
   modified |-> r.modified, wrote |-> wrote,
   fixedBefore |-> fixedCount, skippedBefore |-> skippedCount]

Untouched == [newContent |-> content, modified |-> FALSE]

(* the marker guard leaves the loop iteration without counting the file *)
SkipAlreadyPatchedUncounted ==
  /\ pc = "loop"
  /\ idx <= Len(files)
  /\ HasMarker(content)
  /\ idx' = idx + 1
  /\ last' = Iteration("marker", Untouched, FALSE)
  /\ UNCHANGED <<version, files, disk, fixedCount, skippedCount, pc, firstRun,
                 original, atStart, written>>

(* if (content.includes('Bypass TS2589')) { skippedCount++; continue; } *)
SkipAlreadyPatched ==
  /\ pc = "loop"
  /\ idx <= Len(files)
  /\ HasMarker(content)
  /\ skippedCount' = skippedCount + 1
  /\ idx' = idx + 1
  /\ last' = Iteration("marker", Untouched, FALSE)
  /\ UNCHANGED <<version, files, disk, fixedCount, pc, firstRun, original, atStart, written>>

(* if (!hasInternalImport && !hasApiImport) { skippedCount++; continue; } *)
SkipNoMatch ==
  /\ pc = "loop"
  /\ idx <= Len(files)
  /\ ~HasMarker(content)
  /\ ~hasInternalImport(content)
  /\ ~hasApiImport(content)
  /\ skippedCount' = skippedCount + 1
  /\ idx' = idx + 1
  /\ last' = Iteration("noMatch", Untouched, FALSE)
  /\ UNCHANGED <<version, files, disk, fixedCount, pc, firstRun, original, atStart, written>>

(* the rest of the loop body: rewrite, then write and count *)
RewriteFile ==
  /\ pc = "loop"
  /\ idx <= Len(files)
  /\ ~HasMarker(content)
  /\ hasInternalImport(content) \/ hasApiImport(content)
  /\ LET r == Rewrite(version, content, importPathOf(files[idx]))
     IN IF r.modified
        THEN /\ disk' = [disk EXCEPT ![idx] = r.newContent]
             /\ fixedCount' = fixedCount + 1
             /\ written' = written \cup {idx}
             /\ last' = Iteration(r.branch, r, TRUE)
             /\ UNCHANGED skippedCount
        ELSE /\ skippedCount' = skippedCount + 1
             /\ last' = Iteration(r.branch, r, FALSE)
             /\ UNCHANGED <<disk, fixedCount, written>>
  /\ idx' = idx + 1
  /\ UNCHANGED <<version, files, pc, firstRun, original, atStart>>

(* the loop is over: the summary is printed *)
Finish ==
  /\ pc = "loop"
  /\ idx > Len(files)
  /\ pc' = "done"
  /\ UNCHANGED <<version, files, disk, idx, fixedCount, skippedCount, firstRun,
                 original, atStart, written, last>>

(* the script is started again on the tree it left *)
Rerun ==
  /\ pc = "done"
  /\ firstRun' = FALSE
  /\ pc' = "loop"
  /\ idx' = 1
  /\ fixedCount' = 0
  /\ skippedCount' = 0
  /\ atStart' = disk
  /\ written' = {}
  /\ last' = NoIteration
  /\ UNCHANGED <<version, files, disk, original>>

Next == SkipAlreadyPatched \/ SkipNoMatch \/ RewriteFile \/ Finish \/ Rerun

Spec == Init /\ [][Next]_vars

SpecV1 == InitV1 /\ [][Next]_vars

SpecBatch == InitBatch /\ [][Next]_vars

(* ----------------------------- vocabulary of the properties ----------- *)

(* last describes the iteration that has just ended in the current run *)
Fresh == last.branch # "none"

lastPath == importPathOf(files[last.file])

MarkerIn(text) == \E l \in 1..Len(text) : text[l] = <<MarkerToken>>

Occurs(line, text) == \E l \in 1..Len(text) : text[l] = line

Occurrences(line, text) == Cardinality({ l \in 1..Len(text) : text[l] = line })

Listed(name, ns) == \E i \in 1..Len(ns) : ns[i] = name

(* the import statements, with or without the type qualifier, that bind
   internal, and those that bind api, from the generated api module *)
BindingLines ==
  [ name \in {"internal", "api"} |->
      { PlainImport(ns) : ns \in { m \in NameLists : Listed(name, m) } }
        \cup { TypeImport(ns) : ns \in { m \in NameLists : Listed(name, m) } } ]

Binds(name, line) == line \in BindingLines[name]

(* the import statements of the generated api module that list internal, and
   those that list api, first, whatever stands between import and the brace *)
FirstListingLines ==
  [ name \in {"internal", "api"} |->
      UNION { { PlainImport(ns), TypeImport(ns), DefaultImport(ns) } :
              ns \in { m \in NameLists : m[1] = name } } ]

ListsFirst(name, line) == line \in FirstListingLines[name]

(* the import statements of the generated api module that list neither internal nor api *)
UnrelatedLines ==
  UNION { { PlainImport(ns), TypeImport(ns), DefaultImport(ns) } :
          ns \in { m \in NameLists : ~Listed("internal", m) /\ ~Listed("api", m) } }

Unrelated(line) == line \in UnrelatedLines

ImportsApiModule(line) == line \in ImportLines

(* the text with every line that binds internal, and every line that binds api,
   replaced by the block of that one name, line by line *)
RECURSIVE EachNameReplaced(_, _)
EachNameReplaced(text, path) ==
  IF text = << >> THEN << >>
  ELSE (IF Binds("internal", Head(text)) THEN NameBlock("internal", path)
        ELSE IF Binds("api", Head(text)) THEN NameBlock("api", path)
        ELSE <<Head(text)>>) \o EachNameReplaced(Tail(text), path)

(* the text with every line that binds both names replaced by the block of both *)
RECURSIVE EachCombinedReplaced(_, _)
EachCombinedReplaced(text, path) ==
  IF text = << >> THEN << >>
  ELSE (IF Binds("internal", Head(text)) /\ Binds("api", Head(text))
        THEN CombinedBlock(path)
        ELSE <<Head(text)>>) \o EachCombinedReplaced(Tail(text), path)

(* ----------------------------- properties ----------------------------- *)

(* C1. Idempotence: every text the script writes carries the marker; a later
   run writes nothing and counts nothing as fixed, so the tree after it is
   the tree it started from; a file an earlier run rewrote is skipped at the
   marker guard, with no matching and no replacement. *)
C1_Idempotent ==
  /\ Fresh /\ last.wrote => MarkerIn(last.newContent)
  /\ ~firstRun =>
       /\ disk = atStart
       /\ written = {}
       /\ fixedCount = 0
       /\ Fresh /\ atStart[last.file] # original[last.file] =>
            /\ last.branch = "marker"
            /\ ~last.wrote
            /\ last.newContent = last.content

(* a file the first run rewrote has been skipped as already patched by the second *)
C1_Witness ==
  /\ ~firstRun
  /\ pc = "done"
  /\ atStart # original
  /\ disk = atStart
  /\ last.branch = "marker"

(* C2. Every file found is counted once: after each iteration exactly one of
   the two counters has grown by one, 'fixed' counts exactly the files
   written back (those whose text changed), and at the summary the two
   counters add up to the number of files found. *)
C2_EveryFileCounted ==
  /\ fixedCount + skippedCount = idx - 1
  /\ fixedCount = Cardinality(written)
  /\ written = { i \in 1..Len(files) : disk[i] # atStart[i] }
  /\ Fresh =>
       /\ last.wrote => /\ fixedCount = last.fixedBefore + 1
                        /\ skippedCount = last.skippedBefore
                        /\ last.file \in written
       /\ ~last.wrote => /\ fixedCount = last.fixedBefore
                         /\ skippedCount = last.skippedBefore + 1
                         /\ last.file \notin written
  /\ pc = "done" => fixedCount + skippedCount = Len(files)

(* a run over several files has ended with files of both kinds *)
C2_Witness ==
  /\ pc = "done"
  /\ Len(files) >= 2
  /\ fixedCount >= 1
  /\ skippedCount >= 1

NoQualifyingImport(text) ==
  \A l \in 1..Len(text) :
    ~ListsFirst("internal", text[l]) /\ ~ListsFirst("api", text[l])

(* C3 as stated. A text with no qualifying import is Skipped-NoMatch, not
   modified, not written and unchanged. *)
C3_NoOpSafety_AsStated ==
  Fresh /\ NoQualifyingImport(last.content) =>
    /\ last.branch = "noMatch"
    /\ ~last.modified
    /\ ~last.wrote
    /\ disk[last.file] = last.content

(* C3 as amended. A text with no qualifying import is not modified, not
   written, unchanged and counted as skipped; it is Skipped-NoMatch when it
   lacks the marker and Skipped-AlreadyPatched when it carries it. *)
C3_NoOpSafety ==
  Fresh /\ NoQualifyingImport(last.content) =>
    /\ last.branch = (IF MarkerIn(last.content) THEN "marker" ELSE "noMatch")
    /\ ~last.modified
    /\ ~last.wrote
    /\ last.newContent = last.content
    /\ disk[last.file] = last.content
    /\ skippedCount = last.skippedBefore + 1
    /\ fixedCount = last.fixedBefore

(* a text that imports from the generated module and from another one, but
   lists neither name first, has been skipped as no match *)
C3_Witness ==
  /\ Fresh
  /\ last.branch = "noMatch"
  /\ \E l \in 1..Len(last.content) : ImportsApiModule(last.content[l])
  /\ Occurs(OtherImport, last.content)
  /\ disk[last.file] = last.content

(* C4. Detection tolerance: in a text without the marker, a line that binds
   internal (api) from the generated module, at any position of its brace
   list, makes hasInternalImport (hasApiImport) true, and such a text is
   never Skipped-NoMatch. *)
C4_DetectionTolerant ==
  Fresh /\ ~MarkerIn(last.content) =>
    /\ (\E l \in 1..Len(last.content) : Binds("internal", last.content[l]))
         => last.hasInternal
    /\ (\E l \in 1..Len(last.content) : Binds("api", last.content[l]))
         => last.hasApi
    /\ (\E l \in 1..Len(last.content) :
          Binds("internal", last.content[l]) \/ Binds("api", last.content[l]))
         => last.branch # "noMatch"

(* C5. Same-line combined rule: in a text without the marker, every line that
   binds both internal and api is replaced by the combined block (the marker
   once, then the two declarations), nothing else changes, the same-line
   branch is the one taken, and the file is Fixed. *)
C5_SameLineCombined ==
  Fresh /\ ~MarkerIn(last.content)
        /\ (\E l \in 1..Len(last.content) :
              Binds("internal", last.content[l]) /\ Binds("api", last.content[l])) =>
    /\ last.branch = "sameLine"
    /\ last.newContent = EachCombinedReplaced(last.content, lastPath)
    /\ last.wrote
    /\ disk[last.file] = last.newContent

(* C6. Single-name rule: in a text without the marker in which exactly one of
   hasInternalImport and hasApiImport holds, the file is Fixed, no line that
   made the condition true remains, the declaration of that name is in the
   output and no declaration of the other name is. *)
C6_SingleName ==
  Fresh /\ ~MarkerIn(last.content) /\ last.hasInternal # last.hasApi =>
    LET name == IF last.hasInternal THEN "internal" ELSE "api"
        other == IF last.hasInternal THEN "api" ELSE "internal"
    IN /\ last.wrote
       /\ disk[last.file] = last.newContent
       /\ \A l \in 1..Len(last.content) :
            ListsFirst(name, last.content[l]) => ~Occurs(last.content[l], last.newContent)
       /\ Occurs(DeclLine(name, lastPath), last.newContent)
       /\ ~Occurs(DeclLine(other, lastPath), last.newContent)

(* C7. Separate-line rule: when both conditions hold and no line matches the
   same-line pattern, the output is the input with each line that binds
   internal replaced by the block of internal alone and each line that binds
   api by the block of api alone, every other line kept as it was; modified
   is true exactly when at least one line was replaced, also when only one of
   the two names has a line to replace. *)
C7_SeparateLines ==
  Fresh /\ ~MarkerIn(last.content) /\ last.hasInternal /\ last.hasApi
        /\ ~(\E l \in 1..Len(last.content) :
               Binds("internal", last.content[l]) /\ Binds("api", last.content[l])) =>
    /\ last.branch = "separate"
    /\ last.newContent = EachNameReplaced(last.content, lastPath)
    /\ last.modified =
         (\E l \in 1..Len(last.content) :
            Binds("internal", last.content[l]) \/ Binds("api", last.content[l]))
    /\ last.wrote = last.modified
    /\ disk[last.file] = last.newContent

(* the separate-line branch has replaced the line of one name only, the line
   of the other matching the detection but not the replacement pattern *)
C7_Witness ==
  /\ Fresh
  /\ last.branch = "separate"
  /\ last.wrote
  /\ \E l \in 1..Len(last.content) : Binds("internal", last.content[l])
  /\ ~\E l \in 1..Len(last.content) : Binds("api", last.content[l])
  /\ Occurs(DeclLine("internal", lastPath), last.newContent)
  /\ \E l \in 1..Len(last.content) :
       ListsFirst("api", last.content[l]) /\ Occurs(last.content[l], last.newContent)

(* C8. Unrelated-name guard: a line that imports neither internal nor api from
   the generated module is never rewritten and never makes a condition true;
   a text without the marker whose only imports of the generated module are
   such lines is Skipped-NoMatch and unchanged. *)
C8_UnrelatedNameGuard ==
  Fresh =>
    /\ \A l \in 1..Len(last.content) :
         Unrelated(last.content[l]) =>
           /\ Occurrences(last.content[l], last.newContent)
                = Occurrences(last.content[l], last.content)
           /\ ~DetectLine("internal", last.content[l])
           /\ ~DetectLine("api", last.content[l])
    /\ ( /\ ~MarkerIn(last.content)
         /\ \A l \in 1..Len(last.content) :
              ImportsApiModule(last.content[l]) => Unrelated(last.content[l]) )
         => last.branch = "noMatch" /\ ~last.wrote /\ last.newContent = last.content

ReplacementBranches == {"sameLine", "separate", "internal", "api"}

(* C9. Modified-flag accuracy: in the same-line, separate-line and single-name
   branches modified is true exactly when newContent differs from the
   content read; the file is written and counted as fixed exactly then, and
   a detected file none of whose lines the replacement pattern matches is
   left as it was and counted as skipped. *)
C9_ModifiedAccurate ==
  Fresh /\ last.branch \in ReplacementBranches =>
    /\ last.modified = (last.newContent # last.content)
    /\ last.wrote = last.modified
    /\ last.modified => /\ disk[last.file] = last.newContent
                        /\ fixedCount = last.fixedBefore + 1
                        /\ skippedCount = last.skippedBefore
    /\ ~last.modified => /\ disk[last.file] = last.content
                         /\ fixedCount = last.fixedBefore
                         /\ skippedCount = last.skippedBefore + 1

(* a file was detected, its replacement pattern matched no line, and it was
   counted as skipped and not written *)
C9_Witness ==
  /\ Fresh
  /\ last.branch \in ReplacementBranches
  /\ last.hasInternal \/ last.hasApi
  /\ ~last.modified
  /\ ~last.wrote
  /\ skippedCount = last.skippedBefore + 1
  /\ disk[last.file] = last.content

(* C10. Fix completeness: the text written for a Fixed file has no import left
   that the detection finds. *)
C10_FixComplete ==
  Fresh /\ last.wrote =>
    /\ ~hasInternalImport(last.newContent)
    /\ ~hasApiImport(last.newContent)

====
